---- MODULE Spec2Model ----
(***************************************************************************)
(* Model of the stock routes of the storefront backend                     *)
(* (src/routes/stockRoutes.js, src/models/Stock.js).                       *)
(*                                                                         *)
(* The Stock collection is the shared state.  Every POST /update-stock     *)
(* request is a process that advances from one await to the next           *)
(* (startSession, each findOneAndUpdate, commitTransaction,                *)
(* abortTransaction); every POST /check-stock request advances from one    *)
(* findOne to the next.  The store is MongoDB as the handlers use it:      *)
(* a multi-document transaction reads its snapshot plus its own writes,    *)
(* a write to a document that another open transaction wrote, or that was  *)
(* committed after the snapshot, fails with a write conflict, and a commit *)
(* publishes all writes of the transaction at once.                        *)
(*                                                                         *)
(* stockRoutes.js uses the identifier `mongoose` without requiring it and  *)
(* no file under src/ mounts the router, so the binding of that global is  *)
(* decided by whatever loads the module: the call at line 36 either        *)
(* yields a session or throws (ReferenceError, or a store failure).  Both  *)
(* outcomes are modelled.                                                  *)
(***************************************************************************)
EXTENDS Integers, Sequences, FiniteSets

\* ------------------------------------------------------------------ bounds
MaxQty == 3
MaxAmount == 2
MaxLines == 2
NumReqs == 2
NumChecks == 2
NumLegacy == 2

Reqs == 1..NumReqs
Checks == 1..NumChecks
LegacyReqs == 1..NumLegacy

\* --------------------------------------------------------- Stock documents
\* The unique composite index of the Stock model: one document per key.
KA == [productId |-> "A", size |-> "M", color |-> "red"]
KB == [productId |-> "A", size |-> "L", color |-> "red"]
Keys == {KA, KB}

\* Stock collections: a quantity for each key that has a document.
StockStates == UNION {[D -> 0..MaxQty] : D \in SUBSET Keys}

\* ------------------------------------------------------------ request input
\* item.quantity values a client can send: negative, zero, positive.
Amounts == (-1)..MaxAmount

\* The items a request body can hold: objects with id, size, color and
\* quantity, and objects that lack the quantity property.
WellFormedItems ==
  {[id |-> k.productId, size |-> k.size, color |-> k.color, quantity |-> a] :
     k \in Keys, a \in Amounts}
NoQuantityItems ==
  {[id |-> k.productId, size |-> k.size, color |-> k.color] : k \in {KA}}
Items == WellFormedItems \cup NoQuantityItems

\* The tuples a check-stock body can hold: `quantity` is only echoed there.
QueryItems == {i \in Items : "quantity" \in DOMAIN i => i.quantity = 1}

HasQuantity(item) == "quantity" \in DOMAIN item

\* ------------------------------------------------------------------- state
VARIABLES
  stock,   \* the committed Stock collection: key -> quantity
  req,     \* per update-stock request: position and locals of the handler
  txn,     \* per update-stock request: its session and transaction
  res,     \* per update-stock request: what was sent on `res`
  hist,    \* per update-stock request: history of what the store did for it
  chk,     \* per check-stock request: position and locals of the handler
  cres,    \* per check-stock request: what was sent on `res`
  catalog, \* the Product collection: the persisted product document, if any
  leg      \* per POST /api/products/:id/update-stock request: its handler

vars == <<stock, req, txn, res, hist, chk, cres, catalog, leg>>
lvars == <<catalog, leg>>

\* ------------------------------------------------------- handler constants
\* Variant: the options without the session.
UpdateOptionsNoSession == [new |-> TRUE, session |-> FALSE]
\* The options object of the findOneAndUpdate call: { new: true, session }
UpdateOptions == [new |-> TRUE, session |-> TRUE]

\* Strings are sequences of pieces, concatenated with \o.
Str(item, field) == IF field \in DOMAIN item THEN <<item[field]>> ELSE <<"undefined">>

\* Variant: a message that does not name the item.
InsufficientMessageFixed(item) == <<"Stock insuficiente">>
\* `Stock insuficiente para ${item.id}-${item.size}-${item.color}`
InsufficientMessage(item) ==
  <<"Stock insuficiente para ">> \o Str(item, "id") \o <<"-">>
     \o Str(item, "size") \o <<"-">> \o Str(item, "color")

TypeErrorMessage == <<"items is not iterable">>
CastErrorMessage == <<"Cast to Number failed">>
WriteConflictMessage == <<"WriteConflict">>
StoreErrorMessage == <<"StoreError">>

\* The filter of the update: the composite key of the item ...
FilterKey(item) == [productId |-> item.id, size |-> item.size, color |-> item.color]

\* Variant: a filter on the key alone.
FilterQuantityNoGuard(quantity, item) == TRUE
\* ... and quantity: { $gte: item.quantity }
FilterQuantity(quantity, item) == quantity >= item.quantity

\* { $inc: { quantity: -item.quantity } }
Inc(quantity, item) == quantity + (-item.quantity)

\* Variant: the call resolves to the document before the update.
ReturnedQuantityBefore(opts, before, after) == before
\* What the call resolves to: the document after the update ({ new: true })
\* or the document before it.
ReturnedQuantity(opts, before, after) == IF opts.new THEN after ELSE before

\* -------------------------------------------------------------- the store
NoDocs == [k \in {} |-> 0]

\* An open transaction that has run an operation holds a snapshot.
Active(t) == t.state = "inprogress"

\* What transaction t reads: its snapshot overlaid with its own writes.
View(t) ==
  [k \in DOMAIN t.snap |-> IF k \in DOMAIN t.writes THEN t.writes[k] ELSE t.snap[k]]

\* Keys written by open transactions other than r.
LockedByOthers(r) ==
  UNION {DOMAIN txn[o].writes : o \in {o \in Reqs : o # r /\ Active(txn[o])}}

\* The collection after the writes w are published.
Publish(s, w) == [k \in DOMAIN s |-> IF k \in DOMAIN w THEN w[k] ELSE s[k]]

\* Net change of every document between two collections.
Diff(before, after) == [k \in DOMAIN before |-> after[k] - before[k]]
AddDiff(d, e) == [k \in DOMAIN d |-> d[k] + e[k]]

\* ------------------------------------------- the Product collection (legacy)
\* JavaScript values: numbers (NaN among them), undefined, objects.
Num(n) == [t |-> "number", v |-> n]
NaN == [t |-> "NaN"]
Undefined == [t |-> "undefined"]

\* a - b on JavaScript values: NaN unless both are numbers.
Minus(a, b) ==
  IF a.t = "number" /\ b.t = "number" THEN Num(a.v - b.v) ELSE NaN

\* x < 0: false for NaN and undefined.
LessThanZero(x) == x.t = "number" /\ x.v < 0

\* typeof x === 'number' holds for NaN too.
TypeofNumber(x) == x.t \in {"number", "NaN"}

\* if (x): objects are truthy, 0, NaN and undefined are not.
Truthy(x) ==
  \/ x.t \in {"object", "array"}
  \/ x.t = "number" /\ x.v # 0

\* s.toUpperCase() on the strings of the model.
ToUpperCase(s) ==
  IF s = "m" THEN "M" ELSE IF s = "unica" THEN "UNICA" ELSE s

\* { quantity: n }, and the three shapes of product.stock (Mixed): a number,
\* an object keyed by strings, an array of { size | talla, quantity }.
Entry(q) == [t |-> "object", quantity |-> q]
StockMap(m) == [t |-> "object", m |-> m]
StockArray(a) == [t |-> "array", a |-> a]

\* Property keys are strings, kept as the pieces they are built from.
ClothingKey(size, color) == <<size, "-", color>>
DefaultKey == <<"default">>
SizeKeys == {<<"M">>, <<"UNICA">>}

Quantities == {Num(n) : n \in 0..MaxQty}
Entries == Quantities \cup {Entry(q) : q \in Quantities}
MapKeys == {ClothingKey("m", "red"), DefaultKey} \cup SizeKeys
ArrayItems ==
  {[size |-> "m", quantity |-> q] : q \in Quantities}
    \cup {[talla |-> "unica", quantity |-> q] : q \in Quantities}
StockShapes ==
  Quantities
    \cup {StockMap([k \in {key} |-> e]) : key \in MapKeys, e \in Entries}
    \cup {StockArray(<<i>>) : i \in ArrayItems}

ProductTypes == {"clothing", "accessory", "gloves", "kneepads"}
NoProduct == [id |-> "none"]
Products == {[id |-> "P1", productType |-> ty, stock |-> st] :
               ty \in ProductTypes, st \in StockShapes}

\* What a request body can carry.
BodySizes == {Undefined, [t |-> "string", s |-> "m"]}
BodyColors == {Undefined, [t |-> "string", s |-> "red"]}
BodyQuantities == {Undefined} \cup {Num(n) : n \in (-1)..MaxAmount}

\* product.stock[key]
Get(st, key) ==
  IF st.t = "object" /\ key \in DOMAIN st.m THEN st.m[key] ELSE Undefined

\* What the switch of the handler leaves behind: how it ended, the document
\* in memory, whether Mongoose saw the change (an assignment to the path
\* `stock`; a change inside a Mixed value is not tracked), and the quantity
\* it computed.
Ended(outcome, doc, modified, result) ==
  [outcome |-> outcome, doc |-> doc, modified |-> modified, result |-> result]

\* product.stock -= quantity, then the `< 0` test (lines 215-220, 264-270).
FlatBranch(st, quantity) ==
  LET nq == Minus(st, quantity)
  IN IF LessThanZero(nq)
       THEN Ended("insufficient", nq, TRUE, nq)
       ELSE Ended("updated", nq, TRUE, nq)

\* product.stock[key].quantity -= quantity, then the `< 0` test
\* (lines 204-212, 221-227).  On a number the assignment is dropped and
\* `.quantity` reads undefined.
EntryBranch(st, key, quantity) ==
  LET e  == st.m[key]
      nq == Minus(e.quantity, quantity)
  IN IF e.t = "object"
       THEN Ended(IF LessThanZero(nq) THEN "insufficient" ELSE "updated",
                  StockMap([st.m EXCEPT ![key] = Entry(nq)]), FALSE, nq)
       ELSE Ended("updated", st, FALSE, Undefined)

\* const sizeKey = size?.toUpperCase() || 'UNICA'
SizeKey(size) ==
  IF size.t = "string" /\ ToUpperCase(size.s) # "" THEN ToUpperCase(size.s)
  ELSE "UNICA"

\* The findIndex predicate of lines 234-237.
MatchesSize(item, sizeKey) ==
  \/ "size" \in DOMAIN item /\ ToUpperCase(item.size) = sizeKey
  \/ "talla" \in DOMAIN item /\ ToUpperCase(item.talla) = sizeKey

\* Lines 233-245: the array shape.
ArrayBranch(st, sizeKey, quantity) ==
  LET hits == {i \in DOMAIN st.a : MatchesSize(st.a[i], sizeKey)}
      i    == CHOOSE j \in hits : \A h \in hits : j <= h
      nq   == Minus(st.a[i].quantity, quantity)
  IN IF hits = {}
       THEN Ended("nobranch", st, FALSE, Undefined)
       ELSE Ended(IF LessThanZero(nq) THEN "insufficient" ELSE "updated",
                  StockArray([st.a EXCEPT ![i].quantity = nq]), FALSE, nq)

\* Lines 246-263: the object shape keyed by size.
SizeMapBranch(st, sizeKey, quantity) ==
  LET e       == Get(st, <<sizeKey>>)
      current == IF e.t = "object" THEN e.quantity ELSE e
      nq      == Minus(current, quantity)
  IN IF ~Truthy(e)
       THEN Ended("nobranch", st, FALSE, Undefined)
     ELSE IF LessThanZero(nq)
       THEN Ended("insufficient", st, FALSE, nq)
     ELSE Ended("updated",
                StockMap([st.m EXCEPT ![<<sizeKey>>] =
                            IF e.t = "object" THEN Entry(nq) ELSE nq]),
                FALSE, nq)

\* Lines 198-272: the switch over product.productType.
UpdateProductStock(product, size, color, quantity) ==
  LET st == product.stock
  IN
  IF product.productType = "clothing"
    THEN IF ~(size.t = "string" /\ color.t = "string")
           THEN Ended("needSizeColor", st, FALSE, Undefined)
         ELSE IF Truthy(Get(st, ClothingKey(size.s, color.s)))
           THEN EntryBranch(st, ClothingKey(size.s, color.s), quantity)
         ELSE Ended("nobranch", st, FALSE, Undefined)
  ELSE IF product.productType = "accessory"
    THEN IF TypeofNumber(st) THEN FlatBranch(st, quantity)
         ELSE IF Truthy(Get(st, DefaultKey))
           THEN EntryBranch(st, DefaultKey, quantity)
         ELSE Ended("nobranch", st, FALSE, Undefined)
  ELSE \* 'gloves', 'kneepads'
    IF st.t = "array" THEN ArrayBranch(st, SizeKey(size), quantity)
    ELSE IF st.t = "object" THEN SizeMapBranch(st, SizeKey(size), quantity)
    ELSE IF TypeofNumber(st) THEN FlatBranch(st, quantity)
    ELSE Ended("nobranch", st, FALSE, Undefined)

IdleLegacy == [pc |-> "idle", doc |-> Undefined, modified |-> FALSE,
               status |-> 0, sent |-> 0, outcome |-> "none",
               quantity |-> Undefined, result |-> Undefined, wrote |-> FALSE]

\* ------------------------------------------------------------------- Init
IdleReq == [pc |-> "idle", hasItems |-> FALSE, n |-> 0, items |-> <<>>,
            updates |-> <<>>, error |-> <<>>]
NoTxn == [session |-> "none", state |-> "none", snap |-> NoDocs,
          writes |-> NoDocs, stale |-> {}]
NoRes == [sent |-> 0, status |-> 0, success |-> FALSE, updates |-> <<>>,
          error |-> <<>>]
IdleChk == [pc |-> "idle", hasItems |-> FALSE, n |-> 0, items |-> <<>>,
            results |-> <<>>, reads |-> 0, epoch |-> 0,
            before |-> NoDocs]
NoCres == [sent |-> 0, status |-> 0, success |-> FALSE, results |-> <<>>,
           error |-> <<>>]

Init ==
  /\ stock \in StockStates
  /\ req = [r \in Reqs |-> IdleReq]
  /\ txn = [r \in Reqs |-> NoTxn]
  /\ res = [r \in Reqs |-> NoRes]
  /\ hist = [r \in Reqs |->
               [ops |-> 0, cause |-> "none", threw |-> "none",
                delta |-> [k \in DOMAIN stock |-> 0]]]
  /\ chk = [c \in Checks |-> IdleChk]
  /\ cres = [c \in Checks |-> NoCres]
  /\ catalog = NoProduct
  /\ leg = [l \in LegacyReqs |-> IdleLegacy]

\* ------------------------------------------------- POST /update-stock steps
\* The catch block is entered with `error` (line 69).
Caught(r, items, msg, threw, cause) ==
  /\ req' = [req EXCEPT ![r].pc = "catch", ![r].error = msg, ![r].items = items]
  /\ hist' = [hist EXCEPT ![r].ops = @ + 1, ![r].threw = threw, ![r].cause = cause]

\* Lines 36-43: the request arrives, startSession resolves or throws, the
\* transaction starts, items is read from the body and the loop is entered.
StartSession(r) ==
  /\ req[r].pc = "idle"
  /\ \E hasItems \in BOOLEAN, n \in 0..MaxLines, ok \in BOOLEAN :
       /\ ~hasItems => n = 0
       /\ IF ~ok
            THEN \* line 36 is outside the try: the handler's promise rejects
              /\ req' = [req EXCEPT ![r].pc = "done", ![r].hasItems = hasItems,
                                    ![r].n = n]
              /\ hist' = [hist EXCEPT ![r].ops = @ + 1, ![r].threw = "session"]
              /\ UNCHANGED txn
            ELSE
              /\ txn' = [txn EXCEPT ![r].session = "open", ![r].state = "starting"]
              /\ hist' = [hist EXCEPT ![r].ops = @ + 1,
                                      ![r].threw = IF hasItems THEN "none" ELSE "type"]
              /\ req' = [req EXCEPT
                           ![r].hasItems = hasItems, ![r].n = n,
                           ![r].pc = IF ~hasItems THEN "catch"
                                     ELSE IF n = 0 THEN "commit" ELSE "loop",
                           ![r].error = IF hasItems THEN <<>> ELSE TypeErrorMessage]
  /\ UNCHANGED <<stock, res, chk, cres, lvars>>

\* Lines 43-65: one iteration of the loop, the await of findOneAndUpdate.
FindOneAndUpdate(r) ==
  /\ req[r].pc = "loop"
  /\ \E item \in Items, fault \in BOOLEAN :
       LET items == Append(req[r].items, item)
           t     == IF txn[r].state = "starting"
                      THEN [txn[r] EXCEPT !.state = "inprogress", !.snap = stock,
                                          !.stale = {}]
                      ELSE txn[r]
           docs  == IF UpdateOptions.session THEN View(t) ELSE stock
           key   == FilterKey(item)
           found == key \in DOMAIN docs /\ FilterQuantity(docs[key], item)
           after == Inc(docs[key], item)
       IN
       IF ~HasQuantity(item)
         THEN \* the update cannot be cast: the call rejects before the store
           /\ Caught(r, items, CastErrorMessage, "cast", "none")
           /\ UNCHANGED <<stock, txn>>
       ELSE IF fault
         THEN
           /\ Caught(r, items, StoreErrorMessage, "store", "none")
           /\ txn' = [txn EXCEPT ![r] = t]
           /\ UNCHANGED stock
       ELSE IF ~found
         THEN \* result is null: line 56 throws
           /\ Caught(r, items, InsufficientMessage(item), "none",
                     IF key \in DOMAIN docs THEN "insufficient" ELSE "notfound")
           /\ txn' = [txn EXCEPT ![r] = t]
           /\ UNCHANGED stock
       ELSE IF UpdateOptions.session /\ key \in (t.stale \cup LockedByOthers(r))
         THEN
           /\ Caught(r, items, WriteConflictMessage, "conflict", "none")
           /\ txn' = [txn EXCEPT ![r] = t]
           /\ UNCHANGED stock
       ELSE
           /\ IF UpdateOptions.session
                THEN /\ txn' = [txn EXCEPT ![r] =
                                  [t EXCEPT !.writes =
                                     [k \in DOMAIN t.writes \cup {key} |->
                                        IF k = key THEN after ELSE t.writes[k]]]]
                     /\ UNCHANGED stock
                     /\ hist' = [hist EXCEPT ![r].ops = @ + 1]
                ELSE /\ stock' = [stock EXCEPT ![key] = after]
                     /\ txn' = [o \in Reqs |->
                                  IF o # r /\ Active(txn[o])
                                    THEN [txn[o] EXCEPT !.stale = @ \cup {key}]
                                    ELSE IF o = r THEN t ELSE txn[o]]
                     /\ hist' = [hist EXCEPT ![r].ops = @ + 1,
                                   ![r].delta = AddDiff(@, Diff(stock, stock'))]
           /\ req' = [req EXCEPT
                        ![r].items = items,
                        ![r].updates = Append(@,
                           [id |-> item.id, size |-> item.size, color |-> item.color,
                            newStock |-> ReturnedQuantity(UpdateOptions, docs[key], after)]),
                        ![r].pc = IF Len(items) = req[r].n THEN "commit" ELSE "loop"]
  /\ UNCHANGED <<res, chk, cres, lvars>>

\* Lines 67-68 and 73: commitTransaction, then the success response.
CommitTransaction(r) ==
  /\ req[r].pc = "commit"
  /\ \E fault \in BOOLEAN :
       IF txn[r].state = "starting"
         THEN \* nothing ran in the transaction: the commit is local
           /\ txn' = [txn EXCEPT ![r].state = "committed", ![r].session = "ended"]
           /\ res' = [res EXCEPT ![r] =
                        [sent |-> res[r].sent + 1, status |-> 200, success |-> TRUE,
                         updates |-> req[r].updates, error |-> <<>>]]
           /\ req' = [req EXCEPT ![r].pc = "done"]
           /\ hist' = [hist EXCEPT ![r].ops = @ + 1]
           /\ UNCHANGED stock
       ELSE IF fault
         THEN \* the commit fails: the writes are discarded, line 67 throws
           /\ txn' = [txn EXCEPT ![r].state = "committed", ![r].writes = NoDocs]
           /\ req' = [req EXCEPT ![r].pc = "catch", ![r].error = StoreErrorMessage]
           /\ hist' = [hist EXCEPT ![r].ops = @ + 1, ![r].threw = "commit"]
           /\ UNCHANGED <<stock, res>>
       ELSE
           /\ stock' = Publish(stock, txn[r].writes)
           /\ txn' = [o \in Reqs |->
                        IF o = r
                          THEN [txn[r] EXCEPT !.state = "committed", !.session = "ended"]
                        ELSE IF Active(txn[o])
                          THEN [txn[o] EXCEPT !.stale = @ \cup DOMAIN txn[r].writes]
                        ELSE txn[o]]
           /\ res' = [res EXCEPT ![r] =
                        [sent |-> res[r].sent + 1, status |-> 200, success |-> TRUE,
                         updates |-> req[r].updates, error |-> <<>>]]
           /\ req' = [req EXCEPT ![r].pc = "done"]
           /\ hist' = [hist EXCEPT ![r].ops = @ + 1,
                         ![r].delta = AddDiff(@, Diff(stock, stock'))]
  /\ UNCHANGED <<chk, cres, lvars>>

\* Lines 69-73: the catch block and the finally block.
AbortTransaction(r) ==
  /\ req[r].pc = "catch"
  /\ IF txn[r].state = "committed"
       THEN \* abortTransaction after commitTransaction throws: line 71 is
            \* skipped, the finally block runs, the handler's promise rejects
         /\ txn' = [txn EXCEPT ![r].session = "ended"]
         /\ hist' = [hist EXCEPT ![r].ops = @ + 1, ![r].threw = "abort"]
         /\ UNCHANGED res
       ELSE
         /\ txn' = [txn EXCEPT ![r].state = "aborted", ![r].writes = NoDocs,
                               ![r].session = "ended"]
         /\ res' = [res EXCEPT ![r] =
                      [sent |-> res[r].sent + 1, status |-> 400, success |-> FALSE,
                       updates |-> <<>>, error |-> req[r].error]]
         /\ hist' = [hist EXCEPT ![r].ops = @ + 1]
  /\ req' = [req EXCEPT ![r].pc = "done"]
  /\ UNCHANGED <<stock, chk, cres, lvars>>

\* -------------------------------------------------- POST /check-stock steps
\* Variant: available capped by the requested quantity.
AvailableOrRequested(docs, key, item) ==
  IF key \in DOMAIN docs /\ HasQuantity(item) /\ item.quantity < docs[key]
    THEN item.quantity ELSE IF key \in DOMAIN docs THEN docs[key] ELSE 0
\* available: product ? product.quantity : 0
Available(docs, key, item) == IF key \in DOMAIN docs THEN docs[key] ELSE 0

\* The entry pushed for an item; JSON drops `requested` when it is undefined.
ResultEntry(docs, item) ==
  LET found == [id |-> item.id, size |-> item.size, color |-> item.color,
                available |-> Available(docs, FilterKey(item), item)]
  IN IF HasQuantity(item)
       THEN [id |-> found.id, size |-> found.size, color |-> found.color,
             available |-> found.available, requested |-> item.quantity]
       ELSE found

\* Committed transactions so far.
Commits == Cardinality({r \in Reqs : txn[r].state = "committed" /\ res[r].success})

\* Lines 8-12: the request arrives and the loop is entered.
CheckStock(c) ==
  /\ chk[c].pc = "idle"
  /\ \E hasItems \in BOOLEAN, n \in 0..MaxLines :
       /\ ~hasItems => n = 0
       /\ IF ~hasItems
            THEN \* items is not iterable: line 30
              /\ chk' = [chk EXCEPT ![c].pc = "done"]
              /\ cres' = [cres EXCEPT ![c] =
                            [sent |-> cres[c].sent + 1, status |-> 500,
                             success |-> FALSE, results |-> <<>>,
                             error |-> TypeErrorMessage]]
          ELSE IF n = 0
            THEN
              /\ chk' = [chk EXCEPT ![c].pc = "done", ![c].hasItems = TRUE,
                                    ![c].epoch = Commits, ![c].before = stock]
              /\ cres' = [cres EXCEPT ![c] =
                            [sent |-> cres[c].sent + 1, status |-> 200,
                             success |-> TRUE, results |-> <<>>, error |-> <<>>]]
          ELSE
              /\ chk' = [chk EXCEPT ![c].pc = "loop", ![c].hasItems = TRUE,
                                    ![c].n = n, ![c].epoch = Commits,
                                    ![c].before = stock]
              /\ UNCHANGED cres
  /\ UNCHANGED <<stock, req, txn, res, hist, lvars>>

\* Lines 12-28: one iteration of the loop, the await of findOne.
FindOne(c) ==
  /\ chk[c].pc = "loop"
  /\ \E item \in QueryItems, fault \in BOOLEAN :
       LET items   == Append(chk[c].items, item)
           results == Append(chk[c].results, ResultEntry(stock, item))
       IN
       IF fault
         THEN
           /\ chk' = [chk EXCEPT ![c].pc = "done", ![c].items = items,
                                 ![c].reads = @ + 1]
           /\ cres' = [cres EXCEPT ![c] =
                         [sent |-> cres[c].sent + 1, status |-> 500,
                          success |-> FALSE, results |-> <<>>,
                          error |-> StoreErrorMessage]]
         ELSE
           /\ chk' = [chk EXCEPT
                        ![c].pc = IF Len(items) = chk[c].n THEN "done" ELSE "loop",
                        ![c].items = items, ![c].results = results,
                        ![c].reads = @ + 1,
                        ![c].epoch = IF chk[c].epoch = Commits THEN @ ELSE -1]
           /\ cres' = IF Len(items) = chk[c].n
                        THEN [cres EXCEPT ![c] =
                                [sent |-> cres[c].sent + 1, status |-> 200,
                                 success |-> TRUE, results |-> results,
                                 error |-> <<>>]]
                        ELSE cres
  /\ UNCHANGED <<stock, req, txn, res, hist, lvars>>

\* ------------------------------ POST /api/products/:id/update-stock steps
\* What the handler sends for each way it ends.
LegacyStatus(outcome) ==
  CASE outcome = "notfound"      -> 404
    [] outcome = "needSizeColor" -> 400
    [] outcome = "insufficient"  -> 400
    [] outcome = "nobranch"      -> 400
    [] outcome = "saved"         -> 200
    [] outcome = "error"         -> 500

LegacyEnd(l, quantity, outcome, result) ==
  leg' = [leg EXCEPT ![l].pc = "done", ![l].outcome = outcome,
                     ![l].status = LegacyStatus(outcome), ![l].sent = @ + 1,
                     ![l].quantity = quantity, ![l].result = result]

\* Lines 190-272 and 277-283: Product.findOne resolves or throws, then the
\* switch runs on the document in memory.
FindProduct(l) ==
  /\ leg[l].pc = "idle"
  /\ \E id \in {"P1", "P2"}, size \in BodySizes, color \in BodyColors,
        quantity \in BodyQuantities, fault \in BOOLEAN :
       IF fault THEN LegacyEnd(l, quantity, "error", Undefined)
       ELSE IF catalog.id # id THEN LegacyEnd(l, quantity, "notfound", Undefined)
       ELSE LET e == UpdateProductStock(catalog, size, color, quantity)
            IN IF e.outcome = "updated"
                 THEN leg' = [leg EXCEPT ![l].pc = "save", ![l].doc = e.doc,
                                         ![l].modified = e.modified,
                                         ![l].quantity = quantity,
                                         ![l].result = e.result]
                 ELSE LegacyEnd(l, quantity, e.outcome, e.result)
  /\ UNCHANGED <<stock, req, txn, res, hist, chk, cres, catalog>>

\* Lines 274-276 and 280-283: product.save() writes the paths Mongoose saw
\* change, then the success response; or it throws.
SaveProduct(l) ==
  /\ leg[l].pc = "save"
  /\ \E fault \in BOOLEAN :
       IF fault
         THEN /\ LegacyEnd(l, leg[l].quantity, "error", leg[l].result)
              /\ UNCHANGED catalog
         ELSE /\ catalog' = IF leg[l].modified
                              THEN [catalog EXCEPT !.stock = leg[l].doc]
                              ELSE catalog
              /\ leg' = [leg EXCEPT ![l].pc = "done", ![l].outcome = "saved",
                                    ![l].status = LegacyStatus("saved"),
                                    ![l].sent = @ + 1,
                                    ![l].wrote = catalog' # catalog]
  /\ UNCHANGED <<stock, req, txn, res, hist, chk, cres>>

\* --------------------------------------------------------- specifications
UpdateStock(r) ==
  \/ StartSession(r)
  \/ FindOneAndUpdate(r)
  \/ CommitTransaction(r)
  \/ AbortTransaction(r)

\* Concurrent POST /update-stock requests.
Next == \E r \in Reqs : UpdateStock(r)

Spec == Init /\ [][Next]_vars

\* Concurrent POST /check-stock requests beside one POST /update-stock of
\* at most one line.
NextQ ==
  \/ \E c \in Checks : CheckStock(c) \/ FindOne(c)
  \/ UpdateStock(1) /\ req'[1].n <= 1

SpecQ == Init /\ [][NextQ]_vars

\* Concurrent POST /api/products/:id/update-stock requests on a catalog
\* that holds one product, or none.
InitL ==
  /\ stock = NoDocs
  /\ req = [r \in Reqs |-> IdleReq]
  /\ txn = [r \in Reqs |-> NoTxn]
  /\ res = [r \in Reqs |-> NoRes]
  /\ hist = [r \in Reqs |->
               [ops |-> 0, cause |-> "none", threw |-> "none", delta |-> NoDocs]]
  /\ chk = [c \in Checks |-> IdleChk]
  /\ cres = [c \in Checks |-> NoCres]
  /\ catalog \in Products \cup {NoProduct}
  /\ leg = [l \in LegacyReqs |-> IdleLegacy]

NextL == \E l \in LegacyReqs : FindProduct(l) \/ SaveProduct(l)

SpecL == InitL /\ [][NextL]_vars

\* ------------------------------------------------- vocabulary of the claims
\* The lines of `items` up to line i that name document `key`, and the sum
\* of their amounts.
RECURSIVE Demand(_, _, _)
Demand(items, i, key) ==
  IF i = 0 THEN 0
  ELSE Demand(items, i - 1, key)
         + (IF HasQuantity(items[i]) /\ FilterKey(items[i]) = key
              THEN items[i].quantity ELSE 0)

\* Line i of `items`, run after lines 1..i-1 against the documents `docs`,
\* finds a document holding at least its amount.
Satisfiable(docs, items, i) ==
  LET key == FilterKey(items[i])
  IN /\ HasQuantity(items[i])
     /\ key \in DOMAIN docs
     /\ docs[key] - Demand(items, i - 1, key) >= items[i].quantity

\* The collection before any request changed it.
RECURSIVE SumDelta(_, _)
SumDelta(rs, k) ==
  IF rs = {} THEN 0
  ELSE LET r == CHOOSE x \in rs : TRUE
       IN hist[r].delta[k] + SumDelta(rs \ {r}, k)
Stock0 == [k \in DOMAIN stock |-> stock[k] - SumDelta(Reqs, k)]

Untouched(r) == \A k \in DOMAIN stock : hist[r].delta[k] = 0
Done(r) == req[r].pc = "done"

\* ------------------------------------------------------------------ claims

\* C1: a request of two or more lines in which a line finds no document or
\* too small a quantity never changes the committed quantity of any document:
\* the decrements of the lines before it are not persisted, and the request
\* does not report success.
C1_Atomicity ==
  \A r \in Reqs :
    (req[r].n >= 2 /\ hist[r].cause # "none") =>
       /\ Untouched(r)
       /\ ~res[r].success
       /\ Done(r) => txn[r].state = "aborted" /\ txn[r].writes = NoDocs

\* C1 witness: line 1 was decremented inside the transaction, line 2 was
\* rejected, the request is over and the document of line 1 is as it was.
C1_Witness ==
  \E r \in Reqs :
    /\ Done(r) /\ req[r].n = 2 /\ Len(req[r].items) = 2
    /\ hist[r].cause = "insufficient"
    /\ Len(req[r].updates) = 1
    /\ req[r].updates[1].newStock < txn[r].snap[FilterKey(req[r].items[1])]
    /\ stock = txn[r].snap

\* C2: no document's quantity is negative, neither in the committed
\* collection nor in what a transaction reads nor in a reported newStock.
C2_NoNegativeStock ==
  /\ \A k \in DOMAIN stock : stock[k] >= 0
  /\ \A r \in Reqs :
       /\ \A k \in DOMAIN txn[r].snap : View(txn[r])[k] >= 0
       /\ \A i \in DOMAIN req[r].updates : req[r].updates[i].newStock >= 0
       /\ \A i \in DOMAIN res[r].updates : res[r].updates[i].newStock >= 0

\* C2 witness: one request took a document to 0 and committed, and another
\* request's decrement of that document was refused.
C2_Witness ==
  \E r, o \in Reqs, k \in DOMAIN stock :
    /\ r # o /\ res[r].success /\ hist[r].delta[k] < 0 /\ stock[k] = 0
    /\ Done(o) /\ hist[o].cause = "insufficient"
    /\ FilterKey(req[o].items[Len(req[o].items)]) = k

\* C3: two requests that both name a document and together ask for more than
\* it held never both commit and report success (the document's quantity
\* being what it held before the two, no other request having changed it).
C3_ConflictSerialization ==
  \A r, o \in Reqs :
    ( /\ r # o /\ res[r].success /\ res[o].success
      /\ \A x \in Reqs \ {r, o} : Untouched(x) ) =>
      \A k \in DOMAIN stock :
        ~( /\ \E i \in DOMAIN req[r].items : FilterKey(req[r].items[i]) = k
           /\ \E i \in DOMAIN req[o].items : FilterKey(req[o].items[i]) = k
           /\ Demand(req[r].items, Len(req[r].items), k)
                + Demand(req[o].items, Len(req[o].items), k) > Stock0[k] )

\* C3 witness: both requests were in flight on the same document, their
\* amounts together exceeded it, one committed and the other lost the write
\* conflict.
C3_Witness ==
  \E r, o \in Reqs, k \in DOMAIN stock :
    /\ r # o /\ res[r].success /\ Done(o) /\ hist[o].threw = "conflict"
    /\ FilterKey(req[o].items[Len(req[o].items)]) = k
    /\ Demand(req[r].items, Len(req[r].items), k) > 0
    /\ Demand(req[r].items, Len(req[r].items), k)
         + Demand(req[o].items, Len(req[o].items), k) > Stock0[k]

C6_QueryReadOnly ==
  /\ \A c \in Checks :
       LET items == chk[c].items
           results == chk[c].results
       IN
       /\ Len(results) <= Len(items)
       /\ \A i \in DOMAIN results :
            /\ results[i].id = items[i].id
            /\ results[i].size = items[i].size
            /\ results[i].color = items[i].color
            /\ HasQuantity(items[i]) => results[i].requested = items[i].quantity
            /\ chk[c].epoch = Commits =>
                 results[i].available =
                   (IF FilterKey(items[i]) \in DOMAIN stock
                      THEN stock[FilterKey(items[i])] ELSE 0)
       /\ (chk[c].pc # "idle" /\ chk[c].hasItems /\ chk[c].epoch = Commits)
            => stock = chk[c].before
       /\ cres[c].success =>
            /\ cres[c].status = 200 /\ cres[c].sent = 1
            /\ cres[c].results = results /\ Len(results) = chk[c].n
  /\ \A c, d \in Checks :
       ( /\ cres[c].success /\ cres[d].success
         /\ chk[c].items = chk[d].items
         /\ chk[c].epoch = chk[d].epoch /\ chk[c].epoch # -1 )
       => \A i \in DOMAIN cres[c].results :
            cres[c].results[i].available = cres[d].results[i].available

\* C6 witness: after a commit that changed a document, two requests with
\* the same two tuples both answered the document's new quantity for one
\* tuple and 0 for the tuple that has no document.
C6_Witness ==
  \E c, d \in Checks, k \in DOMAIN stock :
    /\ c # d /\ cres[c].success /\ cres[d].success
    /\ chk[c].items = chk[d].items /\ Len(chk[c].items) = 2
    /\ chk[c].epoch = 1 /\ chk[d].epoch = 1
    /\ stock[k] # Stock0[k]
    /\ FilterKey(chk[c].items[1]) = k
    /\ cres[c].results[1].available = stock[k]
    /\ FilterKey(chk[c].items[2]) \notin DOMAIN stock
    /\ cres[d].results[2].available = 0

\* C7: every update-stock request that is over has sent exactly one answer,
\* has its transaction committed or aborted and its session ended, and has
\* changed no document unless it answered success.
C7_EveryExitCloses ==
  \A r \in Reqs :
    Done(r) =>
      /\ res[r].sent = 1
      /\ txn[r].state \in {"committed", "aborted"}
      /\ txn[r].session = "ended"
      /\ ~res[r].success => Untouched(r)

\* What a caller can tell a failure by, apart from the line it names.
ErrorKind(answer) == <<answer.status, answer.success, Head(answer.error)>>

\* C8: a failure for a line that has no document and a failure for a line
\* whose document holds too little can be told apart by the caller.
C8_NotFoundDistinct ==
  \A r, o \in Reqs :
    ( /\ Done(r) /\ hist[r].cause = "notfound"
      /\ Done(o) /\ hist[o].cause = "insufficient" )
    => ErrorKind(res[r]) # ErrorKind(res[o])

\* A body without items, or with a line that lacks quantity.
Malformed(hasItems, items) ==
  ~hasItems \/ \E i \in DOMAIN items : ~HasQuantity(items[i])

\* C9: a malformed request is rejected before any store operation is made
\* for it.
C9_ValidationFirst ==
  /\ \A r \in Reqs :
       (req[r].pc # "idle" /\ Malformed(req[r].hasItems, req[r].items))
         => hist[r].ops = 0
  /\ \A c \in Checks :
       (chk[c].pc # "idle" /\ Malformed(chk[c].hasItems, chk[c].items))
         => chk[c].reads = 0

\* C10: no request raises the committed quantity of a document, whatever
\* the sign of its amounts.
C10_OnlyLowers ==
  \A r \in Reqs : \A k \in DOMAIN stock : hist[r].delta[k] <= 0

\* The request is over without a save: the product was not found, clothing
\* came without size or color, the quantity would go below 0, or no shape
\* branch applied.
Unsaved(l) ==
  /\ leg[l].pc = "done"
  /\ leg[l].outcome \in {"notfound", "needSizeColor", "insufficient", "nobranch"}

AtLeastZero(x) == x.t = "number" /\ x.v >= 0

\* C11: a legacy update-stock request changes the persisted stock of the
\* product only when a shape branch matched and the quantity it computed is
\* >= 0; a request that ends as not found, missing size or color, below 0
\* or no branch has changed nothing and has not answered success.
C11_LegacyPersists ==
  \A l \in LegacyReqs :
    /\ leg[l].wrote => (leg[l].outcome = "saved" /\ AtLeastZero(leg[l].result))
    /\ Unsaved(l) => (~leg[l].wrote /\ leg[l].status # 200 /\ leg[l].sent = 1)

\* The same for the requests whose body carries a number as quantity.
LegacyPersistsNumeric ==
  \A l \in LegacyReqs :
    leg[l].quantity.t = "number" =>
      /\ leg[l].wrote => (leg[l].outcome = "saved" /\ AtLeastZero(leg[l].result))
      /\ Unsaved(l) => (~leg[l].wrote /\ leg[l].status # 200 /\ leg[l].sent = 1)

\* A request with a number as quantity lowered a flat stock and saved it.
LegacyNumericWitness ==
  \E l \in LegacyReqs :
    /\ leg[l].wrote /\ leg[l].quantity = Num(2) /\ catalog.stock = Num(1)

====
